---- MODULE Spec2Model ----
(***************************************************************************)
(* Model of indoor-temp-humidity-sht41/code.py: five asyncio coroutines    *)
(* (main, read_sht41, wifi_connect, ntp_time_sync, send_data_to_influxdb)  *)
(* run by one cooperative event loop.  A task executes line by line while  *)
(* it is the running task and gives the loop back only at an await.        *)
(*                                                                         *)
(* pc[t] = "Lnnn"  : task t is about to execute line nnn of code.py        *)
(* pc[t] = "awaitnnn" : task t is suspended in the asyncio.sleep of line   *)
(*                   nnn until the clock reaches wake[t]                   *)
(* pc[t] = "none"  : the task has not been created                         *)
(* pc[t] = "dead"  : the coroutine ended with an uncaught exception        *)
(*                                                                         *)
(* Optional values (Python None) are sequences: <<>> is None, <<v>> is v.  *)
(* Temperatures are fixed-point: Celsius in tenths of a degree, Fahrenheit *)
(* in hundredths of a degree, so that C * (9/5) + 32 is exact.             *)
(***************************************************************************)
EXTENDS Integers, Sequences, FiniteSets

VARIABLES
    now,                          \* the clock of the event loop, seconds
    running,                      \* the task executing, or "loop"
    pc,                           \* per task, see above
    wake,                         \* per task, the time its sleep ends
    connected,                    \* wifi.radio.connected
    SENSOR_SAMPLING_INTERVAL,     \* line 20, os.getenv: None when missing
    REPORTING_INTERVAL_SECONDS,   \* line 21, os.getenv: None when missing
    SHT41_TEMPERATURE,            \* line 43
    SHT41_RELATIVE_HUMIDITY,      \* line 44
    temperature,                  \* read_sht41 local, line 109
    relative_humidity,            \* read_sht41 local, line 109
    netSaw,                       \* wifi_connect: value read at line 70
    netSawAt,                     \* the time of that read, until acted on
    data,                         \* send_data_to_influxdb local, line 130
    response,                     \* send_data_to_influxdb local, line 132
    responseOpen,                 \* the response of line 132 is not closed
    lastMeasured,                 \* history: the last successful sensor read
    sensorFailed,                 \* history: this sampler cycle's read raised
    uploadFailed,                 \* history: this report cycle's upload failed
    drops,                        \* history: how often the link was lost
    startedAt,                    \* history: when main had started three tasks
    created,                      \* history: per task, the create_task calls
    sawLink,                      \* history: the tasks whose wait saw the link up
    lastPostAt,                   \* history: when the last POST ended
    netNoYield                    \* history: connect was called and wifi_connect
                                  \* has not awaited since

sched == <<running, pc, wake>>
config == <<SENSOR_SAMPLING_INTERVAL, REPORTING_INTERVAL_SECONDS>>
reading == <<SHT41_TEMPERATURE, SHT41_RELATIVE_HUMIDITY>>
samplerVars == <<temperature, relative_humidity, lastMeasured, sensorFailed>>
netVars == <<netSaw, netSawAt>>
reporterVars == <<data, response, responseOpen, uploadFailed>>

hist == <<created, sawLink, lastPostAt, netNoYield>>

vars == <<now, sched, connected, config, reading, samplerVars, netVars,
          reporterVars, startedAt, drops, hist>>

----------------------------------------------------------------------------
(* Bounds of the model *)

MaxTime == 68          \* the clock stops here
MaxBlock == 1          \* a blocking call (connect, POST, NTP) takes 0..MaxBlock s
MaxDrops == 2          \* the link is lost at most this often
SamplingSeconds == 21  \* the configured SENSOR_SAMPLING_INTERVAL, when set
ReportingSeconds == 3  \* the configured REPORTING_INTERVAL_SECONDS, when set

(* Program constants *)

WarmupSeconds == 60    \* line 155
BackoffSeconds == 10   \* line 77
IdleSeconds == 60      \* line 79
PollSeconds == 1       \* lines 86, 123
NtpSeconds == 3600     \* line 98
MainTickSeconds == 1   \* line 160
StatusNoContent == 204 \* line 133

None == <<>>
Some(v) == <<v>>

Tasks == {"main", "read_sht41", "wifi_connect", "ntp_time_sync",
          "send_data_to_influxdb"}

\* What sht.measurements can return: (tenths of a degree Celsius, percent)
Measurements == {<<200, 40>>, <<-50, 55>>}
StatusValues == {StatusNoContent, 500}   \* HTTP status of a response
Durations == 0..MaxBlock

----------------------------------------------------------------------------
(* asyncio *)

\* The time t seconds from now.  The clock stops at MaxTime, so every time
\* after it is the same time: one that never comes.
Until(t) == IF now + t > MaxTime THEN MaxTime + 1 ELSE now + t

\* asyncio.sleep(t) awaited by `task` at line `label`: suspends the task
\* until now + t.  A delay of None raises TypeError, which nothing in the
\* coroutines catches: the task ends.
AsyncSleep(task, t, label) ==
    /\ running' = "loop"
    /\ IF t = None
       THEN /\ pc' = [pc EXCEPT ![task] = "dead"]
            /\ wake' = [wake EXCEPT ![task] = 0]
       ELSE /\ pc' = [pc EXCEPT ![task] = label]
            /\ wake' = [wake EXCEPT ![task] = Until(t[1])]

\* asyncio.create_task(coro) at a line of `creator`, which goes on to `next`:
\* the new task is scheduled now and first runs once the creator suspends.
CreateTask(creator, next, task, entry) ==
    /\ pc' = [pc EXCEPT ![creator] = next, ![task] = entry]
    /\ wake' = [wake EXCEPT ![task] = now]
    /\ created' = [created EXCEPT ![task] = @ + 1]
    /\ UNCHANGED running

\* Where a coroutine continues after the await it is suspended in.
Resume(label) ==
    CASE label = "await155" -> "L157"
      [] label = "await160" -> "L160"
      [] label = "await115" -> "L109"
      [] label = "await77" -> "L70"
      [] label = "await79" -> "L70"
      [] label = "await86" -> "L85"
      [] label = "await98" -> "L93"
      [] label = "await123" -> "L122"
      [] label = "await141" -> "L129"
      [] OTHER -> label

Schedulable(t) == pc[t] \notin {"none", "dead"}

\* The event loop runs a task whose wake time has come.
Dispatch(t) ==
    /\ running = "loop"
    /\ Schedulable(t)
    /\ wake[t] <= now
    /\ running' = t
    /\ pc' = [pc EXCEPT ![t] = Resume(pc[t])]
    /\ wake' = [wake EXCEPT ![t] = 0]
    /\ UNCHANGED <<now, connected, config, reading, samplerVars, netVars,
                   reporterVars, startedAt, drops, hist>>

MinWake == CHOOSE w \in {wake[t] : t \in {u \in Tasks : Schedulable(u)}} :
               \A t \in {u \in Tasks : Schedulable(u)} : w <= wake[t]

\* No task is due: the loop waits until the earliest wake time.
Idle ==
    /\ running = "loop"
    /\ \E t \in Tasks : Schedulable(t)
    /\ \A t \in Tasks : Schedulable(t) => wake[t] > now
    /\ MinWake <= MaxTime
    /\ now' = MinWake
    /\ UNCHANGED <<sched, connected, config, reading, samplerVars, netVars,
                   reporterVars, startedAt, drops, hist>>

\* The radio loses its link; nothing in the program causes this.
LinkDrop ==
    /\ connected
    /\ connected' = FALSE
    /\ drops < MaxDrops
    /\ drops' = drops + 1
    /\ UNCHANGED <<now, sched, config, reading, samplerVars, netVars,
                   reporterVars, startedAt, hist>>

\* `task` is executing and is at line `label`
At(task, label) == running = task /\ pc[task] = label
Goto(task, label) ==
    /\ pc' = [pc EXCEPT ![task] = label]
    /\ UNCHANGED <<running, wake>>

\* A blocking call: the clock moves on while no other task can run.
Blocks == \E d \in Durations : now + d <= MaxTime /\ now' = now + d

----------------------------------------------------------------------------
(* main, lines 144-160 *)

MainCreateSampler ==
    /\ At("main", "L148")
    /\ CreateTask("main", "L149", "read_sht41", "L109")
    /\ UNCHANGED <<now, connected, config, reading, samplerVars, netVars,
                   reporterVars, startedAt, drops, sawLink, lastPostAt, netNoYield>>

MainCreateNet ==
    /\ At("main", "L149")
    /\ CreateTask("main", "L150", "wifi_connect", "L70")
    /\ UNCHANGED <<now, connected, config, reading, samplerVars, netVars,
                   reporterVars, startedAt, drops, sawLink, lastPostAt, netNoYield>>

MainCreateNtp ==
    /\ At("main", "L150")
    /\ CreateTask("main", "L155", "ntp_time_sync", "L85")
    /\ startedAt' = Some(now)
    /\ UNCHANGED <<now, connected, config, reading, samplerVars, netVars,
                   reporterVars, drops, sawLink, lastPostAt, netNoYield>>

\* Variant of MainWarmup: the warm-up sleep is as short as the idle tick.
MainWarmup_Short ==
    /\ At("main", "L155")
    /\ AsyncSleep("main", Some(MainTickSeconds), "await155")
    /\ UNCHANGED <<now, connected, config, reading, samplerVars, netVars,
                   reporterVars, startedAt, drops, hist>>

\* line 155: await asyncio.sleep(60)
MainWarmup ==
    /\ At("main", "L155")
    /\ AsyncSleep("main", Some(WarmupSeconds), "await155")
    /\ UNCHANGED <<now, connected, config, reading, samplerVars, netVars,
                   reporterVars, startedAt, drops, hist>>

\* Variant of MainCreateReporter: the create_task is inside a loop that
\* never leaves line 157.
MainCreateReporter_Loops ==
    /\ At("main", "L157")
    /\ CreateTask("main", "L157", "send_data_to_influxdb", "L122")
    /\ UNCHANGED <<now, connected, config, reading, samplerVars, netVars,
                   reporterVars, startedAt, drops, sawLink, lastPostAt,
                   netNoYield>>

MainCreateReporter ==
    /\ At("main", "L157")
    /\ CreateTask("main", "L160", "send_data_to_influxdb", "L122")
    /\ UNCHANGED <<now, connected, config, reading, samplerVars, netVars,
                   reporterVars, startedAt, drops, sawLink, lastPostAt, netNoYield>>

\* lines 159-160: while True: await asyncio.sleep(1)
MainTick ==
    /\ At("main", "L160")
    /\ AsyncSleep("main", Some(MainTickSeconds), "await160")
    /\ UNCHANGED <<now, connected, config, reading, samplerVars, netVars,
                   reporterVars, startedAt, drops, hist>>

----------------------------------------------------------------------------
(* read_sht41, lines 101-115 *)

\* Variant of Fahrenheit: the offset is added before the scaling.
Fahrenheit_OffsetFirst(c) == (c + 320) * 18

\* line 111: temperature * (9/5) + 32.  Celsius is in tenths and 9/5 is 18
\* tenths, so the product is in hundredths, as is the 32 added to it.
Fahrenheit(c) == c * 18 + 3200

\* line 109, the read succeeds
SamplerMeasure ==
    /\ At("read_sht41", "L109")
    /\ \E m \in Measurements :
          /\ temperature' = Some(m[1])
          /\ relative_humidity' = Some(m[2])
          /\ lastMeasured' = Some(m)
    /\ sensorFailed' = FALSE
    /\ Goto("read_sht41", "L111")
    /\ UNCHANGED <<now, connected, config, reading, netVars, reporterVars,
                   startedAt, drops, hist>>

\* Variant of SamplerMeasureError: the handler erases the reading.
SamplerMeasureError_Clears ==
    /\ At("read_sht41", "L109")
    /\ sensorFailed' = TRUE
    /\ SHT41_TEMPERATURE' = None
    /\ SHT41_RELATIVE_HUMIDITY' = None
    /\ Goto("read_sht41", "L115")
    /\ UNCHANGED <<now, connected, config, temperature, relative_humidity,
                   lastMeasured, netVars, reporterVars, startedAt, drops, hist>>

\* line 109 raises RuntimeError; lines 113-114 print it
SamplerMeasureError ==
    /\ At("read_sht41", "L109")
    /\ sensorFailed' = TRUE
    /\ Goto("read_sht41", "L115")
    /\ UNCHANGED <<now, connected, config, reading, temperature,
                   relative_humidity, lastMeasured, netVars, reporterVars,
                   startedAt, drops, hist>>

\* Variant of SamplerStoreTemperature: the task yields to the loop (an
\* asyncio.sleep(0)) between the two assignments.
SamplerStoreTemperature_Yields ==
    /\ At("read_sht41", "L111")
    /\ SHT41_TEMPERATURE' = Some(Fahrenheit(temperature[1]))
    /\ running' = "loop"
    /\ pc' = [pc EXCEPT !["read_sht41"] = "L112"]
    /\ wake' = [wake EXCEPT !["read_sht41"] = now]
    /\ UNCHANGED <<now, connected, config, SHT41_RELATIVE_HUMIDITY,
                   samplerVars, netVars, reporterVars, startedAt, drops, hist>>

\* line 111
SamplerStoreTemperature ==
    /\ At("read_sht41", "L111")
    /\ SHT41_TEMPERATURE' = Some(Fahrenheit(temperature[1]))
    /\ Goto("read_sht41", "L112")
    /\ UNCHANGED <<now, connected, config, SHT41_RELATIVE_HUMIDITY,
                   samplerVars, netVars, reporterVars, startedAt, drops, hist>>

\* line 112
SamplerStoreHumidity ==
    /\ At("read_sht41", "L112")
    /\ SHT41_RELATIVE_HUMIDITY' = relative_humidity
    /\ temperature' = None             \* the locals are not read again
    /\ relative_humidity' = None
    /\ Goto("read_sht41", "L115")
    /\ UNCHANGED <<now, connected, config, SHT41_TEMPERATURE, lastMeasured,
                   sensorFailed, netVars, reporterVars, startedAt, drops, hist>>

\* line 115: await asyncio.sleep(SENSOR_SAMPLING_INTERVAL)
SamplerSleep ==
    /\ At("read_sht41", "L115")
    /\ AsyncSleep("read_sht41", SENSOR_SAMPLING_INTERVAL, "await115")
    /\ UNCHANGED <<now, connected, config, reading, samplerVars, netVars,
                   reporterVars, startedAt, drops, hist>>

----------------------------------------------------------------------------
(* wifi_connect, lines 66-79 *)

\* Variant of NetCheck: the link is read but connect is called whatever it
\* reports.
NetCheck_Always ==
    /\ At("wifi_connect", "L70")
    /\ netSaw' = connected
    /\ netSawAt' = Some(now)
    /\ Goto("wifi_connect", "L73")
    /\ UNCHANGED <<now, connected, config, reading, samplerVars,
                   reporterVars, startedAt, drops, hist>>

\* line 70: if not wifi.radio.connected
NetCheck ==
    /\ At("wifi_connect", "L70")
    /\ netSaw' = connected
    /\ netSawAt' = IF connected THEN None ELSE Some(now)
    /\ Goto("wifi_connect", IF connected THEN "L79" ELSE "L73")
    /\ UNCHANGED <<now, connected, config, reading, samplerVars,
                   reporterVars, startedAt, drops, hist>>

\* lines 73-74: connect returns; the loop goes back to line 70 with no await
NetConnect ==
    /\ At("wifi_connect", "L73")
    /\ Blocks
    /\ netNoYield' = TRUE
    /\ connected' = TRUE
    /\ netSawAt' = None
    /\ Goto("wifi_connect", "L70")
    /\ UNCHANGED <<config, reading, samplerVars, netSaw, reporterVars,
                   startedAt, drops, created, sawLink, lastPostAt>>

\* lines 73, 75-76: connect raises ConnectionError or wifi.RadioError
NetConnectError ==
    /\ At("wifi_connect", "L73")
    /\ Blocks
    /\ netNoYield' = TRUE
    /\ netSawAt' = None
    /\ Goto("wifi_connect", "L77")
    /\ UNCHANGED <<connected, config, reading, samplerVars, netSaw,
                   reporterVars, startedAt, drops, created, sawLink, lastPostAt>>

\* Variant of NetBackoff: the wait after a failure is the idle interval.
NetBackoff_Idle ==
    /\ At("wifi_connect", "L77")
    /\ AsyncSleep("wifi_connect", Some(IdleSeconds), "await77")
    /\ netNoYield' = FALSE
    /\ UNCHANGED <<now, connected, config, reading, samplerVars, netVars,
                   reporterVars, startedAt, drops, created, sawLink, lastPostAt>>

\* line 77: await asyncio.sleep(10)
NetBackoff ==
    /\ At("wifi_connect", "L77")
    /\ AsyncSleep("wifi_connect", Some(BackoffSeconds), "await77")
    /\ netNoYield' = FALSE
    /\ UNCHANGED <<now, connected, config, reading, samplerVars, netVars,
                   reporterVars, startedAt, drops, created, sawLink, lastPostAt>>

\* line 79: await asyncio.sleep(60)
NetIdle ==
    /\ At("wifi_connect", "L79")
    /\ AsyncSleep("wifi_connect", Some(IdleSeconds), "await79")
    /\ netNoYield' = FALSE
    /\ UNCHANGED <<now, connected, config, reading, samplerVars, netVars,
                   reporterVars, startedAt, drops, created, sawLink, lastPostAt>>

----------------------------------------------------------------------------
(* ntp_time_sync, lines 82-98 *)

\* line 85: while not wifi.radio.connected
NtpWaitCheck ==
    /\ At("ntp_time_sync", "L85")
    /\ sawLink' = IF connected THEN sawLink \cup {"ntp_time_sync"} ELSE sawLink
    /\ Goto("ntp_time_sync", IF connected THEN "L88" ELSE "L86")
    /\ UNCHANGED <<now, connected, config, reading, samplerVars, netVars,
                   reporterVars, startedAt, drops, created, lastPostAt, netNoYield>>

\* line 86: await asyncio.sleep(1)
NtpWaitSleep ==
    /\ At("ntp_time_sync", "L86")
    /\ AsyncSleep("ntp_time_sync", Some(PollSeconds), "await86")
    /\ UNCHANGED <<now, connected, config, reading, samplerVars, netVars,
                   reporterVars, startedAt, drops, hist>>

\* line 88: the NTP client is constructed; no request is made yet
NtpCreateClient ==
    /\ At("ntp_time_sync", "L88")
    /\ Goto("ntp_time_sync", "L93")
    /\ UNCHANGED <<now, connected, config, reading, samplerVars, netVars,
                   reporterVars, startedAt, drops, hist>>

\* lines 93-94: ntp.datetime answers and the time is formatted
NtpFetch ==
    /\ At("ntp_time_sync", "L93")
    /\ Blocks
    /\ Goto("ntp_time_sync", "L98")
    /\ UNCHANGED <<connected, config, reading, samplerVars, netVars,
                   reporterVars, startedAt, drops, hist>>

\* lines 93, 96-97: ntp.datetime raises, the error is printed
NtpFetchError ==
    /\ At("ntp_time_sync", "L93")
    /\ Blocks
    /\ Goto("ntp_time_sync", "L98")
    /\ UNCHANGED <<connected, config, reading, samplerVars, netVars,
                   reporterVars, startedAt, drops, hist>>

\* line 98: await asyncio.sleep(3600)
NtpSleep ==
    /\ At("ntp_time_sync", "L98")
    /\ AsyncSleep("ntp_time_sync", Some(NtpSeconds), "await98")
    /\ UNCHANGED <<now, connected, config, reading, samplerVars, netVars,
                   reporterVars, startedAt, drops, hist>>

----------------------------------------------------------------------------
(* send_data_to_influxdb, lines 119-141 *)

\* Variant of ReporterWaitCheck: the Reporter goes on whatever the link
\* reports.
ReporterWaitCheck_NoWait ==
    /\ At("send_data_to_influxdb", "L122")
    /\ sawLink' = IF connected THEN sawLink \cup {"send_data_to_influxdb"}
                  ELSE sawLink
    /\ Goto("send_data_to_influxdb", "L125")
    /\ UNCHANGED <<now, connected, config, reading, samplerVars, netVars,
                   reporterVars, startedAt, drops, created, lastPostAt,
                   netNoYield>>

\* line 122: while not wifi.radio.connected
ReporterWaitCheck ==
    /\ At("send_data_to_influxdb", "L122")
    /\ sawLink' = IF connected THEN sawLink \cup {"send_data_to_influxdb"} ELSE sawLink
    /\ Goto("send_data_to_influxdb", IF connected THEN "L125" ELSE "L123")
    /\ UNCHANGED <<now, connected, config, reading, samplerVars, netVars,
                   reporterVars, startedAt, drops, created, lastPostAt, netNoYield>>

\* Variant of ReporterWaitSleep: the Reporter connects the radio itself
\* instead of waiting.
ReporterWaitSleep_Connects ==
    /\ At("send_data_to_influxdb", "L123")
    /\ connected' = TRUE
    /\ Goto("send_data_to_influxdb", "L122")
    /\ UNCHANGED <<now, config, reading, samplerVars, netVars, reporterVars,
                   startedAt, drops, hist>>

\* line 123: await asyncio.sleep(1)
ReporterWaitSleep ==
    /\ At("send_data_to_influxdb", "L123")
    /\ AsyncSleep("send_data_to_influxdb", Some(PollSeconds), "await123")
    /\ UNCHANGED <<now, connected, config, reading, samplerVars, netVars,
                   reporterVars, startedAt, drops, hist>>

\* lines 125-126: the TLS context and the HTTP session
ReporterSession ==
    /\ At("send_data_to_influxdb", "L125")
    /\ Goto("send_data_to_influxdb", "L129")
    /\ UNCHANGED <<now, connected, config, reading, samplerVars, netVars,
                   reporterVars, startedAt, drops, hist>>

\* line 129: None not in (SHT41_TEMPERATURE, SHT41_RELATIVE_HUMIDITY)
ReadingIsSet == SHT41_TEMPERATURE # None /\ SHT41_RELATIVE_HUMIDITY # None

\* Variant of ReporterCheckReading: the payload is built whatever the
\* reading holds.
ReporterCheckReading_NoTest ==
    /\ At("send_data_to_influxdb", "L129")
    /\ uploadFailed' = FALSE
    /\ Goto("send_data_to_influxdb", "L130")
    /\ UNCHANGED <<now, connected, config, reading, samplerVars, netVars,
                   data, response, responseOpen, startedAt, drops, hist>>

\* line 129: a report cycle begins
ReporterCheckReading ==
    /\ At("send_data_to_influxdb", "L129")
    /\ uploadFailed' = FALSE
    /\ Goto("send_data_to_influxdb", IF ReadingIsSet THEN "L130" ELSE "L141")
    /\ UNCHANGED <<now, connected, config, reading, samplerVars, netVars,
                   data, response, responseOpen, startedAt, drops, hist>>

\* Variant of ReporterPayload: the task yields to the loop (an
\* asyncio.sleep(0)) between building the payload and sending it.
ReporterPayload_Yields ==
    /\ At("send_data_to_influxdb", "L130")
    /\ data' = Some(<<SHT41_TEMPERATURE, SHT41_RELATIVE_HUMIDITY>>)
    /\ running' = "loop"
    /\ pc' = [pc EXCEPT !["send_data_to_influxdb"] = "L132"]
    /\ wake' = [wake EXCEPT !["send_data_to_influxdb"] = now]
    /\ UNCHANGED <<now, connected, config, reading, samplerVars, netVars,
                   response, responseOpen, uploadFailed, startedAt, drops,
                   hist>>

\* line 130: the payload is formatted from the two globals
ReporterPayload ==
    /\ At("send_data_to_influxdb", "L130")
    /\ data' = Some(<<SHT41_TEMPERATURE, SHT41_RELATIVE_HUMIDITY>>)
    /\ Goto("send_data_to_influxdb", "L132")
    /\ UNCHANGED <<now, connected, config, reading, samplerVars, netVars,
                   response, responseOpen, uploadFailed, startedAt, drops, hist>>

\* line 132: http_session.post returns a response
ReporterPost ==
    /\ At("send_data_to_influxdb", "L132")
    /\ Blocks
    /\ lastPostAt' = Some(now')
    /\ \E s \in StatusValues : response' = Some(s)
    /\ responseOpen' = TRUE
    /\ Goto("send_data_to_influxdb", "L133")
    /\ UNCHANGED <<connected, config, reading, samplerVars, netVars, data,
                   uploadFailed, startedAt, drops, created, sawLink, netNoYield>>

\* Variant of ReporterPostError: the handler sends the payload again at
\* once.
ReporterPostError_Retries ==
    /\ At("send_data_to_influxdb", "L132")
    /\ Blocks
    /\ lastPostAt' = Some(now')
    /\ uploadFailed' = TRUE
    /\ Goto("send_data_to_influxdb", "L132")
    /\ UNCHANGED <<connected, config, reading, samplerVars, netVars, data,
                   response, responseOpen, startedAt, drops, created, sawLink,
                   netNoYield>>

\* lines 132, 138-139: http_session.post raises, the error is printed
ReporterPostError ==
    /\ At("send_data_to_influxdb", "L132")
    /\ Blocks
    /\ lastPostAt' = Some(now')
    /\ uploadFailed' = TRUE
    /\ Goto("send_data_to_influxdb", "L141")
    /\ UNCHANGED <<connected, config, reading, samplerVars, netVars, data,
                   response, responseOpen, startedAt, drops, created, sawLink, netNoYield>>

\* Variant of ReporterStatusOk: a reading that was sent is cleared.
ReporterStatusOk_Consumes ==
    /\ At("send_data_to_influxdb", "L133")
    /\ response = Some(StatusNoContent)
    /\ SHT41_TEMPERATURE' = None
    /\ SHT41_RELATIVE_HUMIDITY' = None
    /\ Goto("send_data_to_influxdb", "L137")
    /\ UNCHANGED <<now, connected, config, samplerVars, netVars,
                   reporterVars, startedAt, drops, hist>>

\* lines 133-134: status 204
ReporterStatusOk ==
    /\ At("send_data_to_influxdb", "L133")
    /\ response = Some(StatusNoContent)
    /\ Goto("send_data_to_influxdb", "L137")
    /\ UNCHANGED <<now, connected, config, reading, samplerVars, netVars,
                   reporterVars, startedAt, drops, hist>>

\* lines 133, 135: any other status
ReporterStatusOther ==
    /\ At("send_data_to_influxdb", "L133")
    /\ response # Some(StatusNoContent)
    /\ uploadFailed' = TRUE
    /\ Goto("send_data_to_influxdb", "L136")
    /\ UNCHANGED <<now, connected, config, reading, samplerVars, netVars,
                   data, response, responseOpen, startedAt, drops, hist>>

\* line 136: response.text is read and printed
ReporterText ==
    /\ At("send_data_to_influxdb", "L136")
    /\ Goto("send_data_to_influxdb", "L137")
    /\ UNCHANGED <<now, connected, config, reading, samplerVars, netVars,
                   reporterVars, startedAt, drops, hist>>

\* lines 136, 138-139: reading response.text raises; line 137 is skipped
ReporterTextError ==
    /\ At("send_data_to_influxdb", "L136")
    /\ Goto("send_data_to_influxdb", "L141")
    /\ UNCHANGED <<now, connected, config, reading, samplerVars, netVars,
                   reporterVars, startedAt, drops, hist>>

\* line 137: response.close()
ReporterClose ==
    /\ At("send_data_to_influxdb", "L137")
    /\ responseOpen' = FALSE
    /\ Goto("send_data_to_influxdb", "L141")
    /\ UNCHANGED <<now, connected, config, reading, samplerVars, netVars,
                   data, response, uploadFailed, startedAt, drops, hist>>

\* line 141: await asyncio.sleep(REPORTING_INTERVAL_SECONDS)
ReporterSleep ==
    /\ At("send_data_to_influxdb", "L141")
    /\ AsyncSleep("send_data_to_influxdb", REPORTING_INTERVAL_SECONDS,
                  "await141")
    /\ response' = None                \* not read again before line 132
    /\ UNCHANGED <<now, connected, config, reading, samplerVars, netVars,
                   data, responseOpen, uploadFailed, startedAt, drops, hist>>

----------------------------------------------------------------------------
(* The program *)

\* Lines 20-21: os.getenv gives None for a setting that is missing.
\* Lines 43-44: the reading starts unset.  Line 162: asyncio.run(main()).
Init ==
    /\ now = 0
    /\ running = "main"
    /\ pc = [t \in Tasks |-> IF t = "main" THEN "L148" ELSE "none"]
    /\ wake = [t \in Tasks |-> 0]
    /\ connected \in BOOLEAN
    /\ SENSOR_SAMPLING_INTERVAL \in {None, Some(SamplingSeconds)}
    /\ REPORTING_INTERVAL_SECONDS \in {None, Some(ReportingSeconds)}
    /\ SHT41_TEMPERATURE = None
    /\ SHT41_RELATIVE_HUMIDITY = None
    /\ temperature = None
    /\ relative_humidity = None
    /\ netSaw = FALSE
    /\ netSawAt = None
    /\ data = None
    /\ response = None
    /\ responseOpen = FALSE
    /\ lastMeasured = None
    /\ sensorFailed = FALSE
    /\ uploadFailed = FALSE
    /\ startedAt = None
    /\ created = [t \in Tasks |-> IF t = "main" THEN 1 ELSE 0]
    /\ sawLink = {}
    /\ lastPostAt = None
    /\ netNoYield = FALSE
    /\ drops = 0

Next ==
    \/ \E t \in Tasks : Dispatch(t)
    \/ Idle
    \/ LinkDrop
    \/ MainCreateSampler
    \/ MainCreateNet
    \/ MainCreateNtp
    \/ MainWarmup
    \/ MainCreateReporter
    \/ MainTick
    \/ SamplerMeasure
    \/ SamplerMeasureError
    \/ SamplerStoreTemperature
    \/ SamplerStoreHumidity
    \/ SamplerSleep
    \/ NetCheck
    \/ NetConnect
    \/ NetConnectError
    \/ NetBackoff
    \/ NetIdle
    \/ NtpWaitCheck
    \/ NtpWaitSleep
    \/ NtpCreateClient
    \/ NtpFetch
    \/ NtpFetchError
    \/ NtpSleep
    \/ ReporterWaitCheck
    \/ ReporterWaitSleep
    \/ ReporterSession
    \/ ReporterCheckReading
    \/ ReporterPayload
    \/ ReporterPost
    \/ ReporterPostError
    \/ ReporterStatusOk
    \/ ReporterStatusOther
    \/ ReporterText
    \/ ReporterTextError
    \/ ReporterClose
    \/ ReporterSleep

Spec == Init /\ [][Next]_vars

----------------------------------------------------------------------------
(* Properties *)

Sampler == "read_sht41"
Net == "wifi_connect"
Reporter == "send_data_to_influxdb"

\* The shared reading is the conversion of the sensor read m: Fahrenheit is
\* in hundredths and Celsius in tenths, so F = C * 9/5 + 32 reads
\* 5 * (F - 3200) = 90 * C.
IsConversionOf(m) ==
    /\ SHT41_TEMPERATURE # None
    /\ 5 * (SHT41_TEMPERATURE[1] - 3200) = 90 * m[1]
    /\ SHT41_RELATIVE_HUMIDITY = Some(m[2])

ReadingUnset == SHT41_TEMPERATURE = None /\ SHT41_RELATIVE_HUMIDITY = None

\* C1: whenever the sampler is not the running task (it is suspended, so
\* another task or the loop runs, the Reporter's reads of lines 129-130
\* included), temperature and humidity are both unset or both set.
C1_BothOrNeither ==
    running # Sampler =>
        ((SHT41_TEMPERATURE = None) <=> (SHT41_RELATIVE_HUMIDITY = None))

\* C1 witness: the Reporter reads a set reading at line 129 while the sampler
\* is suspended in its sleep.
C1_Witness ==
    /\ At(Reporter, "L129")
    /\ pc[Sampler] = "await115"
    /\ SHT41_TEMPERATURE # None
    /\ SHT41_RELATIVE_HUMIDITY # None

\* C2: at the end of every sampler cycle (the sampler is at or in the sleep
\* of line 115, or ended there) the shared reading is the conversion of the
\* last successful read, and unset if no read succeeded yet; and the step of
\* a failed read changes neither field.
C2_LastSuccessfulRead ==
    /\ [](pc[Sampler] \in {"L115", "await115", "dead"} =>
            IF lastMeasured = None THEN ReadingUnset
            ELSE IsConversionOf(lastMeasured[1]))
    /\ [][pc[Sampler] = "L109" /\ sensorFailed' /\ pc'[Sampler] = "L115"
            => UNCHANGED reading]_vars

\* C2 witness: a failed read after a successful one, the reading still the
\* successful one's.
C2_Witness ==
    /\ pc[Sampler] = "await115"
    /\ sensorFailed
    /\ lastMeasured # None
    /\ IsConversionOf(lastMeasured[1])

\* C3: the Reporter is at the POST of line 132 only with a reading that is
\* set, after a successful sensor read, and with a payload made of two
\* values; and a cycle that finds the reading unset at line 129 goes
\* straight to the sleep of line 141.
C3_NoUploadWhileUnset ==
    /\ [](pc[Reporter] = "L132" =>
            /\ SHT41_TEMPERATURE # None /\ SHT41_RELATIVE_HUMIDITY # None
            /\ lastMeasured # None
            /\ data # None /\ data[1][1] # None /\ data[1][2] # None)
    /\ [][pc[Reporter] = "L129" /\ pc'[Reporter] # "L129"
            /\ (SHT41_TEMPERATURE = None \/ SHT41_RELATIVE_HUMIDITY = None)
            => pc'[Reporter] = "L141" /\ UNCHANGED <<data, response,
                                                     responseOpen>>]_vars

\* C3 witness: a report cycle that found the reading unset and is about to
\* sleep.
C3_Witness ==
    /\ At(Reporter, "L141")
    /\ ReadingUnset
    /\ ~uploadFailed
    /\ ~responseOpen

\* C4: whenever the Reporter is at the POST of line 132, at least the
\* warm-up delay has passed since main started the other three tasks.
C4_WarmupBeforeUpload ==
    pc[Reporter] = "L132" =>
        startedAt # None /\ now >= startedAt[1] + WarmupSeconds

\* C4 witness: an upload exactly when the warm-up delay has passed.
C4_Witness ==
    /\ At(Reporter, "L132")
    /\ startedAt # None
    /\ now = startedAt[1] + WarmupSeconds

\* C5: whenever wifi_connect is at the connect call of line 73, it is the
\* running task, the link does not report connected, and the check of line
\* 70 saw it not connected at this same time in this same run of the task.
C5_ConnectOnlyWhenDown ==
    pc[Net] = "L73" =>
        /\ running = Net
        /\ ~connected
        /\ ~netSaw
        /\ netSawAt = Some(now)

\* C5 witness: a connect call after the link had been up and was lost.
C5_Witness ==
    /\ At(Net, "L73")
    /\ drops > 0

\* C6: wifi_connect never ends; a check that sees the link down leads to the
\* connect call with no time in between; a failed attempt leads to a sleep
\* of exactly the backoff, never longer; and after that sleep the task is
\* back at the check of line 70.
C6_RetryForever ==
    /\ [](pc[Net] # "dead")
    /\ [](pc[Net] = "L73" => netSawAt = Some(now))
    /\ [](pc[Net] = "await77" => wake[Net] <= now + BackoffSeconds)
    /\ [][pc[Net] = "L70" /\ pc'[Net] # "L70" /\ ~connected
            => pc'[Net] = "L73"]_vars
    /\ [][pc[Net] = "L73" /\ pc'[Net] # "L73" /\ ~connected'
            => pc'[Net] = "L77"]_vars
    /\ [][pc[Net] = "L77" /\ pc'[Net] # "L77"
            => pc'[Net] = "await77" /\ wake'[Net] = Until(BackoffSeconds)]_vars
    /\ [][pc[Net] = "await77" /\ pc'[Net] # "await77"
            => pc'[Net] = "L70" /\ now >= wake[Net]]_vars

\* C6 witness: a connect attempt after more than two backoff intervals on a
\* link that never came up.
C6_Witness ==
    /\ At(Net, "L73")
    /\ drops = 0
    /\ now > 2 * BackoffSeconds

\* C7, as claimed: after a failed upload the Reporter is still alive.
C7_ReporterSurvivesFailure ==
    uploadFailed => pc[Reporter] # "dead"

\* C8, as claimed: after a sensor error the sampler is still alive.
C8_SamplerSurvivesError ==
    sensorFailed => pc[Sampler] # "dead"

\* C9, as claimed: with an interval missing no task is started, no sensor
\* read is made and no task ends with an error.
C9_MissingConfigStartsNothing ==
    (SENSOR_SAMPLING_INTERVAL = None \/ REPORTING_INTERVAL_SECONDS = None) =>
        /\ \A t \in Tasks \ {"main"} : pc[t] = "none"
        /\ lastMeasured = None
        /\ ~sensorFailed

\* C10: when the sampler has just published a read (C, H) (it is at line 115
\* after a successful read), the shared temperature is C * 9/5 + 32 and the
\* shared humidity is H; 20.0 C is published as 68.0 F.
C10_PublishedConversion ==
    (pc[Sampler] = "L115" /\ ~sensorFailed) =>
        /\ lastMeasured # None
        /\ IsConversionOf(lastMeasured[1])
        /\ (lastMeasured[1][1] = 200 => SHT41_TEMPERATURE = Some(6800))

\* C10 witness: 20.0 C was read and 68.0 F is published.
C10_Witness ==
    /\ pc[Sampler] = "L115"
    /\ ~sensorFailed
    /\ lastMeasured = Some(<<200, 40>>)
    /\ SHT41_TEMPERATURE = Some(6800)
    /\ SHT41_RELATIVE_HUMIDITY = Some(40)

Ntp == "ntp_time_sync"

\* C11, as claimed: when a report cycle reaches its sleep of line 141, the
\* response the POST returned has been closed.
C11_ResponseClosedBeforeSleep ==
    pc[Reporter] = "L141" => ~responseOpen

\* C12, as claimed: a task goes on after its own error: the sampler after a
\* sensor error, the Reporter after an upload error, wifi_connect and
\* ntp_time_sync always.
C12_TasksSurviveTheirErrors ==
    /\ sensorFailed => pc[Sampler] # "dead"
    /\ uploadFailed => pc[Reporter] # "dead"
    /\ pc[Net] # "dead"
    /\ pc[Ntp] # "dead"

\* C13: a Reporter that has not seen the link up is not created, at its wait
\* check or in its one-second wait, and has posted nothing; likewise
\* ntp_time_sync.  A check that sees the link down leads to a sleep of
\* exactly one second and then to the check again.
C13_NothingBeforeLink ==
    /\ [](Reporter \notin sawLink =>
            /\ pc[Reporter] \in {"none", "L122", "L123", "await123"}
            /\ lastPostAt = None)
    /\ [](Ntp \notin sawLink =>
            pc[Ntp] \in {"none", "L85", "L86", "await86"})
    /\ [][pc[Reporter] = "L122" /\ pc'[Reporter] # "L122" /\ ~connected
            => pc'[Reporter] = "L123"]_vars
    /\ [][pc[Reporter] = "L123" /\ pc'[Reporter] # "L123"
            => pc'[Reporter] = "await123"
               /\ wake'[Reporter] = Until(PollSeconds)]_vars
    /\ [][pc[Reporter] = "await123" /\ pc'[Reporter] # "await123"
            => pc'[Reporter] = "L122"]_vars
    /\ [][pc[Ntp] = "L85" /\ pc'[Ntp] # "L85" /\ ~connected
            => pc'[Ntp] = "L86"]_vars
    /\ [][pc[Ntp] = "L86" /\ pc'[Ntp] # "L86"
            => pc'[Ntp] = "await86" /\ wake'[Ntp] = Until(PollSeconds)]_vars
    /\ [][pc[Ntp] = "await86" /\ pc'[Ntp] # "await86"
            => pc'[Ntp] = "L85"]_vars

\* C13 witness: the link is down and both tasks are in their one-second wait,
\* neither having seen the link up.
C13_Witness ==
    /\ pc[Reporter] = "await123"
    /\ pc[Ntp] = "await86"
    /\ ~connected
    /\ sawLink = {}
    /\ now > WarmupSeconds + PollSeconds

\* C14: a POST that follows an earlier one starts at least the reporting
\* interval after that one ended; from the POST the cycle goes on to the
\* status test or to the sleep, never to the POST again; and what is posted
\* is built from the shared reading as it is in this cycle.
C14_OnePostPerCycle ==
    /\ []((pc[Reporter] = "L132" /\ lastPostAt # None) =>
            /\ REPORTING_INTERVAL_SECONDS # None
            /\ now >= lastPostAt[1] + REPORTING_INTERVAL_SECONDS[1])
    /\ [](pc[Reporter] = "L132" =>
            data = Some(<<SHT41_TEMPERATURE, SHT41_RELATIVE_HUMIDITY>>))
    /\ [][pc[Reporter] = "L132" /\ pc'[Reporter] # "L132"
            => pc'[Reporter] \in {"L133", "L141"}]_vars
    /\ [][pc[Reporter] \in {"L133", "L136", "L137"}
            => pc'[Reporter] \in {"L133", "L136", "L137", "L141"}]_vars
    /\ [][pc[Reporter] = "L141" /\ pc'[Reporter] # "L141"
            => pc'[Reporter] \in {"await141", "dead"}]_vars

\* C14 witness: a POST exactly one reporting interval after the one before it
\* ended.
C14_Witness ==
    /\ At(Reporter, "L132")
    /\ lastPostAt = Some(now - ReportingSeconds)
    /\ lastMeasured = Some(<<-50, 55>>)
    /\ now > WarmupSeconds + ReportingSeconds

\* C15: no task is created twice; the Reporter exists only when the other
\* three have been created and main is in its idle loop; main never ends and
\* its idle sleep is one second; a task once created is never reset to
\* not-created, and only main creates tasks.
C15_StartOrder ==
    /\ [](\A t \in Tasks : created[t] <= 1)
    /\ [](created[Reporter] = 1 =>
            /\ created[Sampler] = 1 /\ created[Net] = 1 /\ created[Ntp] = 1
            /\ pc["main"] \in {"L160", "await160"}
            /\ startedAt # None /\ now >= startedAt[1] + WarmupSeconds)
    /\ [](pc["main"] \notin {"none", "dead"})
    /\ [](pc["main"] = "await160" => wake["main"] <= now + MainTickSeconds)
    /\ [][\A t \in Tasks : (pc[t] # "none" => pc'[t] # "none")
                        /\ (created'[t] # created[t] => running = "main")
                        /\ (pc[t] = "none" <=> created[t] = 0)]_vars

\* C15 witness: all four tasks created once and main idling, two ticks after
\* the warm-up.
C15_Witness ==
    /\ pc["main"] = "await160"
    /\ \A t \in Tasks : created[t] = 1
    /\ now >= WarmupSeconds + 2 * MainTickSeconds

\* C16: the link changes only by being lost or by the connect call of
\* wifi_connect at line 73; the history of connect calls changes only in a
\* step of wifi_connect; and the shared reading changes only in a step of
\* read_sht41 at lines 111-112.
C16_Ownership ==
    /\ [][connected' # connected =>
            \/ running = Net /\ pc[Net] = "L73" /\ connected'
            \/ ~connected' /\ drops' = drops + 1 /\ UNCHANGED sched]_vars
    /\ [][netNoYield' # netNoYield => running = Net]_vars
    /\ [][reading' # reading =>
            running = Sampler /\ pc[Sampler] \in {"L111", "L112"}]_vars

\* C16 witness: the link is up again after a loss and the Reporter sleeps
\* after a POST, the reading still set.
C16_Witness ==
    /\ connected
    /\ drops > 0
    /\ pc[Reporter] = "await141"
    /\ lastPostAt # None
    /\ SHT41_TEMPERATURE # None /\ SHT41_RELATIVE_HUMIDITY # None

\* C17: whenever the Reporter is at the POST of line 132, its payload is the
\* shared reading as it is now, and that is the conversion of one sensor
\* read, the last successful one.
C17_PayloadIsOneRead ==
    pc[Reporter] = "L132" =>
        /\ data = Some(<<SHT41_TEMPERATURE, SHT41_RELATIVE_HUMIDITY>>)
        /\ lastMeasured # None
        /\ IsConversionOf(lastMeasured[1])
        /\ \E m \in Measurements :
              /\ data[1][1] # None
              /\ 5 * (data[1][1][1] - 3200) = 90 * m[1]
              /\ data[1][2] = Some(m[2])

\* C17 witness: a POST, not the first, whose payload is the reading
\* (23.0 F, 55 %) of the read (-5.0 C, 55 %).
C17_Witness ==
    /\ At(Reporter, "L132")
    /\ lastPostAt # None
    /\ data = Some(<<Some(2300), Some(55)>>)
    /\ lastMeasured = Some(<<-50, 55>>)

\* C18: no step takes the temperature or the humidity from set to unset.
C18_NeverUnset ==
    [][/\ SHT41_TEMPERATURE # None => SHT41_TEMPERATURE' # None
       /\ SHT41_RELATIVE_HUMIDITY # None => SHT41_RELATIVE_HUMIDITY' # None]_vars

\* C18 witness: the reading is set after a sensor error, a failed upload and
\* a loss of the link.
C18_Witness ==
    /\ SHT41_TEMPERATURE # None /\ SHT41_RELATIVE_HUMIDITY # None
    /\ sensorFailed
    /\ uploadFailed
    /\ drops > 0

\* C19, as claimed: whenever wifi_connect is at the connect call of line 73
\* it has awaited since its previous connect call.
C19_AwaitBetweenAttempts ==
    pc[Net] = "L73" => ~netNoYield

====
